---- MODULE Spec2Model ----
(***************************************************************************)
(* A state-machine model of the flow transformers of python-weka-wrapper   *)
(* (src/python/weka/flow/transformer.py).  One actor instance is modelled: *)
(* its class and option set are fixed at construction, tokens are handed   *)
(* to it through the input setter, execute() runs do_execute followed by   *)
(* post_execute, and has_output()/output() drain it.                       *)
(***************************************************************************)
EXTENDS Integers, Sequences, FiniteSets, TLC

\* ------------------------------------------------------------------ bounds
MaxRows == 3    \* rows of the longest dataset file
MaxExecs == 3   \* execute() calls explored per run
MaxQueue == 2   \* tokens buffered in the output queue
MaxObjs == 3    \* objects serialized in the model file
MaxCols == 3    \* columns of the widest dataset

\* ------------------------------------------------------------ tokens
\* A token carries one payload: t is the payload's class, v and n its value
\* (v a path or a schema name, n a number or a row index), m and h the model
\* and the header of a ModelContainer payload (0 and "" when absent).
Tok(t, v, n) == [t |-> t, v |-> v, n |-> n, m |-> 0, h |-> ""]
NoneTok == Tok("None", "", 0)
ContainerTok(model, header) ==
    [t |-> "ModelContainer", v |-> "", n |-> 0, m |-> model, h |-> header]

\* ------------------------------------------------------- the file system
\* Two dataset files with different schemas, an empty dataset file, a path
\* that does not exist, a directory, and a file of serialized objects.
DatasetFiles == {"a.arff", "b.arff", "empty.arff"}
Paths == DatasetFiles \cup {"missing", "dir", "model.ser"}

PathExists(p) == p # "missing"
\* mutant: a directory passes for a file
PathIsFile_any(p) == TRUE
PathIsFile(p) == p \in DatasetFiles \cup {"model.ser"}
\* number of rows of a dataset file
NumRows(p) ==
    IF p = "a.arff" THEN MaxRows ELSE IF p = "b.arff" THEN MaxRows - 1 ELSE 0
\* schema (header) of a dataset file
Schemas == {"A", "B"}
SchemaOf(p) == IF p = "b.arff" THEN "B" ELSE "A"
\* number of columns of the datasets of a schema
NumAttributes(s) == IF s = "A" THEN MaxCols ELSE MaxCols - 1
\* the payload of row i of file p, and the rows of p in source order
RowTok(p, i) == Tok("Instance", p, i)
AllRows(p) == [i \in 1..NumRows(p) |-> RowTok(p, i)]
\* the payload of the whole dataset of file p (batch mode)
DatasetTok(p) == Tok("Instances", SchemaOf(p), 0)

\* tokens a flow may hand to an actor of class k: payloads of the class it
\* works on, one of another class, and no token
TokenPool(k) ==
    IF k = "LoadDataset"
    THEN {Tok("str", p, 0) : p \in Paths} \cup {Tok("int", "", 4), NoneTok}
    ELSE IF k \in {"Train", "Filter", "CrossValidate", "ClassSelector"}
    THEN {Tok("Instances", s, 0) : s \in Schemas} \cup {Tok("str", "a.arff", 0), NoneTok}
    ELSE IF k = "MathExpression"
    THEN {Tok("int", "", 4), Tok("float", "", 4), Tok("str", "a.arff", 0), NoneTok}
    ELSE IF k = "DeleteFile"
    THEN {Tok("str", p, 0) : p \in {"a.arff", "missing", "dir"}} \cup {NoneTok}
    ELSE IF k = "EvaluationSummary"
    THEN {Tok("Evaluation", s, 0) : s \in Schemas} \cup {Tok("str", "a.arff", 0), NoneTok}
    ELSE IF k = "ModelReader"
    THEN {Tok("str", "model.ser", 0), Tok("str", "a.arff", 0), Tok("int", "", 4), NoneTok}
    ELSE {Tok("int", "", 4), Tok("str", "a.arff", 0), NoneTok}

\* ------------------------------------------------------------- strings
\* Python strings that are formatted, substituted into and evaluated are
\* sequences of one-character strings.
DigitChars == <<"0", "1", "2", "3", "4", "5", "6", "7", "8", "9">>

RECURSIVE NatStr(_)
NatStr(n) ==
    IF n < 10 THEN <<DigitChars[n + 1]>>
    ELSE NatStr(n \div 10) \o <<DigitChars[(n % 10) + 1]>>

\* str(i) for an int
IntStr(i) == IF i < 0 THEN <<"-">> \o NatStr(0 - i) ELSE NatStr(i)

\* str(value) of a stored value or payload: an int prints as its decimal
\* numeral, a float (the floats of the model have no fraction) as that numeral
\* followed by ".0", anything else as text that is no numeral
PyStr(val) ==
    IF val.t = "int" THEN IntStr(val.n)
    ELSE IF val.t = "float" THEN IntStr(val.n) \o <<".", "0">>
    ELSE <<"<">> \o <<val.t>> \o <<">">>

StartsWith(s, pat) ==
    /\ Len(s) >= Len(pat)
    /\ SubSeq(s, 1, Len(pat)) = pat

\* s.replace(pat, rep): every occurrence, left to right
RECURSIVE PyReplace(_, _, _)
PyReplace(s, pat, rep) ==
    IF Len(s) < Len(pat) THEN s
    ELSE IF StartsWith(s, pat)
         THEN rep \o PyReplace(SubSeq(s, Len(pat) + 1, Len(s)), pat, rep)
         ELSE <<s[1]>> \o PyReplace(Tail(s), pat, rep)

IsDigit(c) == \E d \in 1..10 : DigitChars[d] = c
DigitVal(c) == (CHOOSE d \in 1..10 : DigitChars[d] = c) - 1

\* the digits of s from position i on: [val, next]
RECURSIVE ScanDigits(_, _, _)
ScanDigits(s, i, acc) ==
    IF i <= Len(s) /\ IsDigit(s[i])
    THEN ScanDigits(s, i + 1, 10 * acc + DigitVal(s[i]))
    ELSE [val |-> acc, next |-> i]

\* a signed integer literal at position i: [ok, val, next]
ScanInt(s, i) ==
    LET neg == i <= Len(s) /\ s[i] = "-"
        j == IF neg THEN i + 1 ELSE i
        d == ScanDigits(s, j, 0)
    IN  IF d.next = j THEN [ok |-> FALSE, val |-> 0, next |-> i]
        ELSE [ok |-> TRUE, val |-> IF neg THEN 0 - d.val ELSE d.val, next |-> d.next]

\* a numeric literal at position i: an integer literal, a float when ".0"
\* follows it: [ok, val, next, fl]
ScanNum(s, i) ==
    LET a == ScanInt(s, i)
        dot == a.ok /\ a.next + 1 <= Len(s) /\ s[a.next] = "." /\ s[a.next + 1] = "0"
    IN  [ok |-> a.ok, val |-> a.val, next |-> IF dot THEN a.next + 2 ELSE a.next,
         fl |-> dot]

\* a sum  lit { " + " lit }  from position i on, to the end of s:
\* [ok, val, fl]; the sum is a float as soon as one operand is
RECURSIVE ScanSum(_, _, _)
ScanSum(s, i, acc) ==
    LET a == ScanNum(s, i)
        sum == [ok |-> TRUE, val |-> acc.val + a.val, fl |-> acc.fl \/ a.fl]
        bad == [ok |-> FALSE, val |-> 0, fl |-> FALSE]
    IN  IF ~a.ok THEN bad
        ELSE IF a.next = Len(s) + 1 THEN sum
        ELSE IF StartsWith(SubSeq(s, a.next, Len(s)), <<" ", "+", " ">>)
             THEN ScanSum(s, a.next + 3, sum)
             ELSE bad

\* eval(s) for the expressions of the model: a sum of numeric literals,
\* bare or wrapped in int( ), which makes the value an int.  ok = FALSE: eval
\* raises.
PyEval(s) ==
    LET open == <<"i", "n", "t", "(">>
        zero == [ok |-> TRUE, val |-> 0, fl |-> FALSE]
    IN  IF StartsWith(s, open) /\ s[Len(s)] = ")"
        THEN [ScanSum(SubSeq(s, Len(open) + 1, Len(s) - 1), 1, zero) EXCEPT !.fl = FALSE]
        ELSE ScanSum(s, 1, zero)

PlaceholderX == <<"{", "X", "}">>
\* "int({X} + 1)", the default expression of UpdateStorageValue
ExprIncrement == <<"i", "n", "t", "(">> \o PlaceholderX \o <<" ", "+", " ", "1", ")">>
\* "{X}"
ExprIdentity == PlaceholderX
\* "{X} +", which does not parse
ExprMalformed == PlaceholderX \o <<" ", "+">>
\* "1", the default value of InitStorageValue
ValueOne == <<"1">>
\* "1 + {X}"
ExprOnePlusX == <<"1", " ", "+", " ">> \o PlaceholderX
\* "{X} + {X}"
ExprTwice == PlaceholderX \o <<" ", "+", " ">> \o PlaceholderX
\* the values of the 'index' option of ClassSelector
IndexFirst == <<"f", "i", "r", "s", "t">>
IndexLast == <<"l", "a", "s", "t">>

\* --------------------------------------------------------------- state
VARIABLES
    kind,       \* the actor's class
    supplied,   \* the options dictionary the caller gave the constructor
    opts,       \* its option set, after fix_options
    help,       \* the help texts registered for the options
    handler,    \* whether a storage handler is attached (self.storagehandler)
    disk,       \* the objects serialized in "model.ser"
    input,      \* self._input
    output,     \* self._output, the queue of output tokens
    stopped,    \* set by stop_execution
    loader,     \* LoadDataset._loader
    iterator,   \* LoadDataset._iterator
    storage,    \* storagehandler.storage, shared by reference
    heap,       \* the model and filter objects; heap[Template] is configured
    fcache,     \* Filter._filter (an object of heap, 0 = None) and ._header
    result,     \* what the last lifecycle call returned or raised
    lastOp,     \* the last lifecycle call
    lastOut,    \* the token the last output() returned
    emitted,    \* the tokens LoadDataset.output() returned since its last load
    removed,    \* the files that have been deleted from the file system
    cvCall,     \* folds and seed of the last cross-validation that was run
    classIndex, \* per dataset (named by its schema) its class index, -1: none
    self,       \* the actor of the flow that is running
    parked,     \* input, queue and result of the actors that are not running
    fitLog,     \* per token a Filter executed: its schema, whether do_execute
                \* refitted, the schema the filter it applied was fitted on
    fresh,      \* the input token has not been executed yet
    storage0,   \* the storage at the start of the run
    execs,      \* number of execute() calls
    pc,         \* where the command-line entry point main() is
    args,       \* the command line main() was called with
    optlist,    \* main(): the options getopt recognised, as <<flag, value>>
    optargs,    \* main(): the arguments behind the options
    params,     \* main(): the options handed to the evaluation
    train,      \* main(): the train file
    jvm,        \* the calls of jvm.start and jvm.stop so far
    printed,    \* what main() has printed
    jobjects,   \* the Java objects created so far: class name and options
    wrapper     \* the classifier wrapper constructed last

mainVars == <<pc, args, optlist, optargs, params, train, jvm, printed>>
wrapVars == <<jobjects, wrapper>>
cfgVars == <<kind, supplied, opts, help, handler, disk, storage0, self, parked, mainVars,
             wrapVars>>
ldVars == <<loader, iterator>>
objVars == <<heap, fcache, fitLog, classIndex, cvCall, removed>>
vars == <<kind, supplied, opts, help, handler, disk, input, output, stopped, loader, iterator,
          storage, heap, fcache, result, lastOp, lastOut, emitted, fitLog, fresh, storage0, execs,
          classIndex, self, parked, cvCall, removed, mainVars, wrapVars>>

\* what a lifecycle call returns: None, an error message, or an exception
None == "None"
Raised(msg) == "raised: " \o msg
IsRaised(res) == res \in {Raised("No token provided!"), Raised("Unhandled class"),
                          Raised("Unhandled data type"), Raised("AttributeError"),
                          Raised("KeyError"), Raised("eval"), Raised("load"),
                          Raised("read_all"), Raised("Instances"), Raised("build"),
                          Raised("make_copy"), Raised("inputformat"), Raised("filter"),
                          Raised("ValueError"), Raised("class_index"),
                          Raised("crossvalidate"), Raised("TypeError"),
                          Raised("OSError"), Raised("re.error"), Raised("matrix")}

StorageKinds == {"SetStorageValue", "DeleteStorageValue", "InitStorageValue",
                 "UpdateStorageValue"}
Kinds == {"LoadDataset", "Train", "Filter", "ModelReader", "MathExpression",
          "ClassSelector", "CrossValidate", "DeleteFile", "PassThrough",
          "EvaluationSummary"} \cup StorageKinds

\* ------------------------------------------------------ option values
Names == {"unknown", "k"}
Expressions == {ExprIncrement, ExprIdentity, ExprMalformed}
Values == {ValueOne, ExprMalformed}
MathExpressions == {ExprIdentity, ExprOnePlusX, ExprTwice, ExprMalformed}
\* regular expressions: the default, a literal, a prefix with a tail, and one
\* that does not compile
MatchAll == <<".", "*">>
Regexps == {MatchAll, <<"a">>, <<"m", ".", "*">>, <<"*">>}
Indexes == {IndexFirst, IndexLast, <<"1">>, <<"2">>, IntStr(MaxCols), <<"9">>, <<"x">>}

\* ------------------------------------------------------------- storage
Absent == Tok("absent", "", 0)
IntVal(i) == Tok("int", "", i)
\* the value eval returned, as a payload or stored value
EvalVal(v) == Tok(IF v.fl THEN "float" ELSE "int", "", v.val)
InitialValues == {Absent, IntVal(1), IntVal(9), IntVal(0 - 1), Tok("str", "a.arff", 0)}
\* the storage at the start: any value under "unknown", a number or nothing under "k"
InitialStorages ==
    {[nm \in Names |-> IF nm = "unknown" THEN u ELSE w] :
        u \in InitialValues, w \in {Absent, IntVal(1)}}

\* -------------------------------------------------------------- objects
\* the configured 'setup' / 'filter' object
Template == 1
Obj(k, built) == [k |-> k, built |-> built]
ModelKinds == {"Classifier", "Clusterer", "Associator"}
\* the templates a caller may configure for an actor of class k
Templates(k) ==
    IF k = "Train"
    THEN {Obj(c, b) : c \in ModelKinds \cup {"other"}, b \in {"", "A"}}
    ELSE IF k = "Filter" THEN {Obj("Filter", b) : b \in {"", "A"}}
    ELSE IF k = "CrossValidate"
    THEN {Obj(c, "") : c \in ModelKinds \cup {"other"}} \cup {Obj("Clusterer", "A")}
    ELSE {Obj("Classifier", "")}

\* ------------------------------------------------------------- options
\* the defaults the fix_options of class k registers
Defaults(k) ==
    IF k = "LoadDataset"
    THEN [incremental |-> FALSE, use_custom_loader |-> FALSE,
          custom_loader |-> "ArffLoader"]
    ELSE IF k \in {"SetStorageValue", "DeleteStorageValue"}
    THEN [storage_name |-> "unknown"]
    ELSE IF k = "InitStorageValue"
    THEN [storage_name |-> "unknown", value |-> ValueOne]
    ELSE IF k = "UpdateStorageValue"
    THEN [storage_name |-> "unknown", expression |-> ExprIncrement]
    ELSE IF k = "MathExpression" THEN [expression |-> ExprIdentity]
    ELSE IF k = "ClassSelector" THEN [index |-> IndexLast, unset |-> FALSE]
    ELSE IF k = "Train" THEN [setup |-> Obj("Classifier", "")]
    ELSE IF k = "Filter" THEN [filter |-> Obj("Filter", "")]
    ELSE IF k = "DeleteFile" THEN [regexp |-> MatchAll]
    ELSE IF k = "CrossValidate"
    THEN [setup |-> Obj("Classifier", ""), folds |-> 10, seed |-> 1,
          discard_predictions |-> FALSE, output |-> None]
    ELSE IF k = "EvaluationSummary"
    THEN [title |-> None, complexity |-> FALSE, matrix |-> FALSE]
    ELSE <<>>

\* the help text fix_options registers for option n of class k
HelpText(k, n) == <<k, n>>
NoHelp == <<>>

\* the fix_options the classes extend: it adds no option of its own
Inherited_fix_options(st) == st

\* mutant: the defaults replace what the caller supplied
fix_options_overwrite(k, st) ==
    LET b == Inherited_fix_options(st)
        d == Defaults(k)
    IN  [options |-> [n \in DOMAIN b.options \cup DOMAIN d |->
                        IF n \in DOMAIN d THEN d[n] ELSE b.options[n]],
         help |-> [n \in DOMAIN b.help \cup DOMAIN d |->
                        IF n \in DOMAIN b.help THEN b.help[n] ELSE HelpText(k, n)]]

\* fix_options of class k on an options dictionary and the actor's help
\* dictionary: each option that is not there gets its default, each help text
\* that is not there is registered
fix_options(k, st) ==
    LET b == Inherited_fix_options(st)
        d == Defaults(k)
    IN  [options |-> [n \in DOMAIN b.options \cup DOMAIN d |->
                        IF n \in DOMAIN b.options THEN b.options[n] ELSE d[n]],
         help |-> [n \in DOMAIN b.help \cup DOMAIN d |->
                        IF n \in DOMAIN b.help THEN b.help[n] ELSE HelpText(k, n)]]

\* the options the do_execute of class k resolves
Resolved(k) ==
    IF k = "LoadDataset" THEN {"use_custom_loader", "custom_loader", "incremental"}
    ELSE IF k \in {"SetStorageValue", "DeleteStorageValue"} THEN {"storage_name"}
    ELSE IF k = "InitStorageValue" THEN {"storage_name", "value"}
    ELSE IF k = "UpdateStorageValue" THEN {"storage_name", "expression"}
    ELSE IF k = "MathExpression" THEN {"expression"}
    ELSE IF k = "ClassSelector" THEN {"index", "unset"}
    ELSE IF k = "Train" THEN {"setup"}
    ELSE IF k = "Filter" THEN {"filter"}
    ELSE IF k = "DeleteFile" THEN {"regexp"}
    ELSE IF k = "CrossValidate"
    THEN {"setup", "discard_predictions", "folds", "seed", "output"}
    ELSE IF k = "EvaluationSummary" THEN {"title", "complexity", "matrix"}
    ELSE {}

\* the configurations an actor of class k may be given
OptionSets(k) ==
    IF k = "LoadDataset"
    THEN {[Defaults(k) EXCEPT !.incremental = b] : b \in BOOLEAN}
    ELSE IF k \in {"SetStorageValue", "DeleteStorageValue"}
    THEN {[Defaults(k) EXCEPT !.storage_name = nm] : nm \in Names}
    ELSE IF k = "InitStorageValue"
    THEN {[Defaults(k) EXCEPT !.storage_name = nm, !.value = v] :
            nm \in Names, v \in Values}
    ELSE IF k = "UpdateStorageValue"
    THEN {[Defaults(k) EXCEPT !.storage_name = nm, !.expression = e] :
            nm \in Names, e \in Expressions}
    ELSE IF k = "MathExpression"
    THEN {[Defaults(k) EXCEPT !.expression = e] : e \in MathExpressions}
    ELSE IF k = "ClassSelector"
    THEN {[Defaults(k) EXCEPT !.index = i, !.unset = u] :
            i \in Indexes, u \in BOOLEAN}
    ELSE IF k \in {"Train", "CrossValidate"}
    THEN {[Defaults(k) EXCEPT !.setup = t] : t \in Templates(k)}
         \cup (IF k = "Train" THEN {}
               ELSE {[Defaults(k) EXCEPT !.setup = t, !.folds = 2, !.seed = 7] :
                       t \in {Obj("Classifier", ""), Obj("Clusterer", "")}})
    ELSE IF k = "Filter"
    THEN {[Defaults(k) EXCEPT !.filter = t] : t \in Templates(k)}
    ELSE IF k = "DeleteFile"
    THEN {[Defaults(k) EXCEPT !.regexp = r] : r \in Regexps}
    ELSE IF k = "EvaluationSummary"
    THEN {[Defaults(k) EXCEPT !.title = t, !.complexity = c, !.matrix = m] :
            t \in {None, "t"}, c \in BOOLEAN, m \in BOOLEAN}
    ELSE {Defaults(k)}

\* the dictionaries a caller passes to the constructor: of a configuration,
\* the options that differ from the defaults
SuppliedSets(k) ==
    {[n \in {m \in DOMAIN o : o[m] # Defaults(k)[m]} |-> o[n]] : o \in OptionSets(k)}

\* the object the 'setup' / 'filter' option of an actor of class k refers to
ConfiguredObject(k, o) ==
    IF k \in {"Train", "CrossValidate"} THEN o.setup
    ELSE IF k = "Filter" THEN o.filter
    ELSE Obj("Classifier", "")

\* option lookup; the options of the model hold no storage references
resolve_option(name) == opts[name]

\* the files of serialized objects: up to MaxObjs objects
ObjKinds == {"Classifier", "Clusterer", "Instances", "other"}
DiskContents == UNION {[1..n -> {Obj(c, "A") : c \in ObjKinds}] : n \in 0..MaxObjs}

NoLoader == [set |-> FALSE, file |-> ""]
NoIterator == [set |-> FALSE, file |-> "", pos |-> 0]
NoCache == [filter |-> 0, header |-> ""]

\* the actors of a flow that share one storage, and an actor that has not run
ActorIds == {"update1", "update2"}
Idle == [input |-> NoneTok, output |-> <<>>, result |-> None, fresh |-> FALSE]
\* the class index of a dataset without class
NoClass == 0 - 1
\* no cross-validation has been run
NoCall == [folds |-> 0, seed |-> 0]

ActorInit ==
    /\ kind \in Kinds
    /\ supplied \in SuppliedSets(kind)
    /\ opts = fix_options(kind, [options |-> supplied, help |-> NoHelp]).options
    /\ help = fix_options(kind, [options |-> supplied, help |-> NoHelp]).help
    /\ handler \in (IF kind \in StorageKinds THEN BOOLEAN ELSE {TRUE})
    /\ disk \in (IF kind = "ModelReader" THEN DiskContents ELSE {<<>>})
    /\ storage \in (IF kind \in StorageKinds /\ handler
                     THEN InitialStorages ELSE {[nm \in Names |-> Absent]})
    /\ heap = <<ConfiguredObject(kind, opts)>>
    /\ input = NoneTok
    /\ output = <<>>
    /\ stopped = FALSE
    /\ loader = NoLoader
    /\ iterator = NoIterator
    /\ fcache = NoCache
    /\ result = None
    /\ lastOp = "init"
    /\ lastOut = NoneTok
    /\ emitted = <<>>
    /\ fitLog = <<>>
    /\ fresh = FALSE
    /\ storage0 = storage
    /\ execs = 0
    /\ classIndex \in (IF kind = "ClassSelector" THEN [Schemas -> {NoClass, 0}]
                        ELSE {[s \in Schemas |-> NoClass]})
    /\ cvCall = NoCall
    /\ removed = {}
    /\ self = "update1"
    /\ parked = [a \in ActorIds \ {self} |-> Idle]

\* main() has not been called
NoTrain == "None"
NoJvm == [starts |-> 0, stops |-> 0, max_heap_size |-> "None"]
MainLocals ==
    /\ optlist = <<>>
    /\ optargs = <<>>
    /\ params = <<>>
    /\ train = NoTrain
    /\ jvm = NoJvm
    /\ printed = "nothing"

\* no Java object has been created and no wrapper constructed
NoWrapper == [cls |-> "None", classname |-> "None", jobject |-> 0, given |-> 0]
NoJavaObjects ==
    /\ jobjects = <<>>
    /\ wrapper = NoWrapper

Init ==
    /\ ActorInit
    /\ pc = "idle"
    /\ args = <<>>
    /\ MainLocals
    /\ NoJavaObjects

\* ---------------------------------------------------------- check_input
LoadDataset_check_input(token) ==
    IF token = NoneTok THEN Raised("No token provided!")
    ELSE IF token.t = "str" THEN None
    ELSE Raised("Unhandled class")

Train_check_input(token) ==
    IF token = NoneTok THEN Raised("AttributeError")
    ELSE IF token.t = "Instances" THEN None
    ELSE Raised("Unhandled data type")

Filter_check_input(token) ==
    IF token = NoneTok THEN Raised("No token provided!")
    ELSE IF token.t = "Instances" THEN None
    ELSE Raised("Unhandled class")

\* the check_input a class without an override inherits: the class declares
\* no accepted type, so every token passes
Inherited_check_input(token) == None

check_input(k, token) ==
    IF k = "LoadDataset" THEN LoadDataset_check_input(token)
    ELSE IF k = "Train" THEN Train_check_input(token)
    ELSE IF k = "Filter" THEN Filter_check_input(token)
    ELSE Inherited_check_input(token)

\* the input setter: check_input, then the token is stored
SetInput(token) ==
    /\ result' = check_input(kind, token)
    /\ input' = IF result' = None THEN token ELSE input
    /\ fresh' = IF result' = None THEN TRUE ELSE fresh
    /\ lastOp' = "input"
    /\ UNCHANGED <<cfgVars, output, stopped, ldVars, storage, objVars, lastOut,
                   emitted, execs>>

\* ------------------------------------------------------- the lifecycle
\* what the post_execute a Transformer inherits returns
Inherited_post_execute == None

\* mutant: the consumed input is never cleared
post_execute_keeps_input(res, inp) == inp

\* Transformer.post_execute: res is the result of the inherited post_execute;
\* the input is cleared when that is None
post_execute(res, inp) == IF res = None THEN NoneTok ELSE inp

\* what every execute() does around do_execute
Began ==
    /\ execs < MaxExecs
    /\ Len(output) < MaxQueue
    /\ execs' = execs + 1
    /\ lastOp' = "execute"
    /\ fresh' = FALSE
    /\ UNCHANGED <<cfgVars, stopped, lastOut>>

\* post_execute runs once do_execute has returned None
Ended ==
    input' = IF result' = None THEN post_execute(Inherited_post_execute, input)
             ELSE input

\* do_execute reads self.input.payload: without a token it raises
NoInput ==
    /\ input = NoneTok
    /\ result' = Raised("AttributeError")
    /\ UNCHANGED <<output, ldVars, storage, objVars, emitted>>

\* ---------------------------------------------------------- LoadDataset
\* mutant: the iteration starts behind the first row
IterStart_second_row(p) == [set |-> TRUE, file |-> p, pos |-> 1]

IterStart(p) == [set |-> TRUE, file |-> p, pos |-> 0]

LoadDataset_do_execute ==
    LET fname == input.v
    IN  /\ input # NoneTok
        /\ UNCHANGED <<storage, objVars>>
        /\ IF ~PathExists(fname)
           THEN /\ result' = "File does not exist!"
                /\ UNCHANGED <<output, ldVars, emitted>>
           ELSE IF ~PathIsFile(fname)
           THEN /\ result' = "Location is not a file!"
                /\ UNCHANGED <<output, ldVars, emitted>>
           ELSE IF fname \notin DatasetFiles
           THEN \* the loader is assigned, then load_file raises
                /\ loader' = [set |-> TRUE, file |-> fname]
                /\ result' = Raised("load")
                /\ UNCHANGED <<output, iterator, emitted>>
           ELSE /\ loader' = [set |-> TRUE, file |-> fname]
                /\ IF ~resolve_option("incremental")
                   THEN /\ output' = Append(output, DatasetTok(fname))
                        /\ UNCHANGED iterator
                   ELSE /\ iterator' = IterStart(fname)
                        /\ UNCHANGED output
                /\ emitted' = <<>>
                /\ result' = None

\* has_output(): a queued token, or an open iterator
LoadDataset_has_output(out, it) == Len(out) > 0 \/ it.set

\* self._iterator.next(): the next row, or exhausted (StopIteration)
IterHasNext(it) == it.pos < NumRows(it.file)
IterNext(it) == [it EXCEPT !.pos = it.pos + 1]
IterRow(it) == RowTok(it.file, it.pos + 1)

\* OutputProducer.output(): the head of the queue, None when empty
Queue_output ==
    /\ lastOut' = IF output = <<>> THEN NoneTok ELSE Head(output)
    /\ output' = IF output = <<>> THEN output ELSE Tail(output)

LoadDataset_output ==
    IF iterator.set
    THEN /\ IF IterHasNext(iterator)
            THEN /\ lastOut' = IterRow(iterator)
                 /\ iterator' = IterNext(iterator)
            ELSE /\ iterator' = NoIterator
                 /\ lastOut' = NoneTok
         /\ UNCHANGED <<output, loader>>
    ELSE /\ Queue_output
         /\ UNCHANGED ldVars

Output ==
    /\ IF kind = "LoadDataset" THEN LoadDataset_output
       ELSE Queue_output /\ UNCHANGED ldVars
    /\ emitted' = IF kind = "LoadDataset" /\ lastOut' # NoneTok
                  THEN Append(emitted, lastOut') ELSE emitted
    /\ lastOp' = "output"
    /\ UNCHANGED <<cfgVars, input, fresh, stopped, storage, objVars, result, execs>>

\* mutant: stop_execution only sets the inherited flag
StopExecution_flag_only ==
    /\ stopped' = TRUE
    /\ lastOp' = "stop"
    /\ UNCHANGED <<cfgVars, input, fresh, output, ldVars, storage, objVars, result,
                   lastOut, emitted, execs>>

\* stop_execution(): the inherited flag; LoadDataset drops loader and iterator
StopExecution ==
    /\ stopped' = TRUE
    /\ IF kind = "LoadDataset"
       THEN loader' = NoLoader /\ iterator' = NoIterator
       ELSE UNCHANGED ldVars
    /\ lastOp' = "stop"
    /\ UNCHANGED <<cfgVars, input, fresh, output, storage, objVars, result, lastOut,
                   emitted, execs>>

\* mutant: wrapup releases the loader but leaves the iterator open
Wrapup_keeps_iterator ==
    /\ IF kind = "LoadDataset"
       THEN loader' = NoLoader /\ UNCHANGED iterator
       ELSE UNCHANGED ldVars
    /\ lastOp' = "wrapup"
    /\ UNCHANGED <<cfgVars, input, fresh, output, stopped, storage, objVars, result,
                   lastOut, emitted, execs>>

\* wrapup(): LoadDataset drops loader and iterator
Wrapup ==
    /\ IF kind = "LoadDataset"
       THEN loader' = NoLoader /\ iterator' = NoIterator
       ELSE UNCHANGED ldVars
    /\ lastOp' = "wrapup"
    /\ UNCHANGED <<cfgVars, input, fresh, output, stopped, storage, objVars, result,
                   lastOut, emitted, execs>>

ExecuteLoadDataset ==
    /\ kind = "LoadDataset"
    /\ Began
    /\ (NoInput \/ LoadDataset_do_execute)
    /\ Ended

\* ------------------------------------------------------ storage actors
\* mutant: the missing handler is reported after the token was forwarded
NoHandler_after_forward ==
    /\ result' = "No storage handler available!"
    /\ output' = Append(output, input)
    /\ UNCHANGED storage

\* mutant: the missing handler is not checked and its storage is dereferenced
NoHandler_unguarded ==
    /\ result' = Raised("AttributeError")
    /\ UNCHANGED <<output, storage>>

NoHandler ==
    /\ result' = "No storage handler available!"
    /\ UNCHANGED <<output, storage>>

\* mutant: the token is not forwarded
Forward_dropped == output' = output

\* the token is forwarded
Forward == output' = Append(output, input)

\* mutant: the value is stored under the default name, not the configured one
SetStorageValue_do_execute_default_name ==
    /\ UNCHANGED <<ldVars, objVars, emitted>>
    /\ IF ~handler THEN NoHandler
       ELSE IF input = NoneTok
       THEN result' = Raised("AttributeError") /\ UNCHANGED <<output, storage>>
       ELSE /\ storage' = [storage EXCEPT ![Defaults("SetStorageValue").storage_name] = input]
            /\ Forward
            /\ result' = None

SetStorageValue_do_execute ==
    /\ UNCHANGED <<ldVars, objVars, emitted>>
    /\ IF ~handler THEN NoHandler
       ELSE IF input = NoneTok
       THEN result' = Raised("AttributeError") /\ UNCHANGED <<output, storage>>
       ELSE /\ storage' = [storage EXCEPT ![resolve_option("storage_name")] = input]
            /\ Forward
            /\ result' = None

\* mutant: the entry is deleted with del, which raises for an absent name
DeleteStorageValue_do_execute_strict ==
    /\ UNCHANGED <<ldVars, objVars, emitted>>
    /\ IF ~handler THEN NoHandler
       ELSE IF storage[resolve_option("storage_name")] = Absent
       THEN result' = Raised("KeyError") /\ UNCHANGED <<output, storage>>
       ELSE /\ storage' = [storage EXCEPT ![resolve_option("storage_name")] = Absent]
            /\ Forward
            /\ result' = None

DeleteStorageValue_do_execute ==
    /\ UNCHANGED <<ldVars, objVars, emitted>>
    /\ IF ~handler THEN NoHandler
       ELSE /\ storage' = [storage EXCEPT ![resolve_option("storage_name")] = Absent]
            /\ Forward
            /\ result' = None

InitStorageValue_do_execute ==
    LET v == PyEval(resolve_option("value"))
    IN  /\ UNCHANGED <<ldVars, objVars, emitted>>
        /\ IF ~handler THEN NoHandler
           ELSE IF ~v.ok
           THEN result' = Raised("eval") /\ UNCHANGED <<output, storage>>
           ELSE /\ storage' = [storage EXCEPT
                                 ![resolve_option("storage_name")] = EvalVal(v)]
                /\ Forward
                /\ result' = None

\* mutant: the placeholder is not substituted
UpdateExpr_unsubstituted(expression, current) == expression

\* mutant: the value is taken from a copy of the storage made when the flow
\* started, not from the shared storage
UpdateExpr_stale_snapshot(expression, current) ==
    PyReplace(expression, PlaceholderX, PyStr(storage0[resolve_option("storage_name")]))

\* the expression with {X} replaced by str() of the current value
UpdateExpr(expression, current) == PyReplace(expression, PlaceholderX, PyStr(current))

UpdateStorageValue_do_execute ==
    LET nm == resolve_option("storage_name")
        v == PyEval(UpdateExpr(resolve_option("expression"), storage[nm]))
    IN  /\ UNCHANGED <<ldVars, objVars, emitted>>
        /\ IF ~handler THEN NoHandler
           ELSE IF storage[nm] = Absent
           THEN result' = Raised("KeyError") /\ UNCHANGED <<output, storage>>
           ELSE IF ~v.ok
           THEN result' = Raised("eval") /\ UNCHANGED <<output, storage>>
           ELSE /\ storage' = [storage EXCEPT ![nm] = EvalVal(v)]
                /\ Forward
                /\ result' = None

ExecuteSetStorageValue ==
    /\ kind = "SetStorageValue"
    /\ Began
    /\ SetStorageValue_do_execute
    /\ Ended

ExecuteDeleteStorageValue ==
    /\ kind = "DeleteStorageValue"
    /\ Began
    /\ DeleteStorageValue_do_execute
    /\ Ended

ExecuteInitStorageValue ==
    /\ kind = "InitStorageValue"
    /\ Began
    /\ InitStorageValue_do_execute
    /\ Ended

ExecuteUpdateStorageValue ==
    /\ kind = "UpdateStorageValue"
    /\ Began
    /\ UpdateStorageValue_do_execute
    /\ Ended

\* ---------------------------------------------------------------- Train
\* make_copy: a new object in the state of the copied one
MakeCopy(h, id) == [heap |-> Append(h, h[id]), id |-> Len(h) + 1]

\* build_classifier / build_clusterer / build_associations on object id
Build(h, id, schema) == [h EXCEPT ![id].built = schema]

\* mutant: the configured model itself is trained, no copy is made
Train_build_in_place(h, schema) ==
    [heap |-> Build(h, Template, schema), id |-> Template, copied |-> h]

\* mutant: the copy is put into the container without being trained
Train_build_untrained(h, schema) ==
    LET c == MakeCopy(h, Template)
    IN  [heap |-> c.heap, id |-> c.id, copied |-> c.heap]

\* the copy of the configured model, and the heap once it is trained on data
Train_build(h, schema) ==
    LET c == MakeCopy(h, Template)
    IN  [heap |-> Build(c.heap, c.id, schema), id |-> c.id, copied |-> c.heap]

Train_do_execute ==
    LET data == input
        cls == heap[Template]
        b == Train_build(heap, data.v)
    IN  /\ input # NoneTok
        /\ UNCHANGED <<ldVars, storage, fcache, fitLog, classIndex, cvCall, removed, emitted>>
        /\ IF cls.k \in ModelKinds
           THEN \/ /\ heap' = b.heap
                   /\ output' = Append(output, ContainerTok(b.id, data.v))
                   /\ result' = None
                \/ \* the build raises on the copy
                   /\ heap' = b.copied
                   /\ result' = Raised("build")
                   /\ UNCHANGED output
           ELSE /\ result' = "Unhandled class"
                /\ UNCHANGED <<heap, output>>

ExecuteTrain ==
    /\ kind = "Train"
    /\ Began
    /\ (NoInput \/ Train_do_execute)
    /\ Ended

\* --------------------------------------------------------------- Filter
\* equal_headers(data) is not None: the schemas differ
HeadersDiffer(header, schema) == header # schema

\* whether do_execute takes the refit branch
Filter_must_refit(cache, schema) ==
    cache.filter = 0 \/ HeadersDiffer(cache.header, schema)

\* the log entry of a token: only the first do_execute on a token is logged
FitLogged(schema, refit, id, h) ==
    IF fresh
    THEN Append(fitLog, [schema |-> schema, fit |-> refit, fittedOn |-> h[id].built])
    ELSE fitLog

Filter_do_execute ==
    LET data == input
        refit == Filter_must_refit(fcache, data.v)
        c == MakeCopy(heap, Template)
    IN  /\ input # NoneTok
        /\ UNCHANGED <<ldVars, storage, classIndex, cvCall, removed, emitted>>
        /\ IF refit
           THEN \/ \* inputformat raises: the unfitted copy is already cached
                   /\ fcache' = [filter |-> c.id, header |-> data.v]
                   /\ heap' = Build(c.heap, c.id, "")
                   /\ result' = Raised("inputformat")
                   /\ fitLog' = FitLogged(data.v, refit, c.id, heap')
                   /\ UNCHANGED output
                \/ \* make_copy raises: the header is already replaced
                   /\ fcache' = [fcache EXCEPT !.header = data.v]
                   /\ result' = Raised("make_copy")
                   /\ fitLog' = FitLogged(data.v, refit, Template, heap)
                   /\ UNCHANGED <<heap, output>>
                \/ /\ fcache' = [filter |-> c.id, header |-> data.v]
                   /\ heap' = Build(c.heap, c.id, data.v)
                   /\ output' = Append(output, [Tok("Instances", data.v, 0)
                                                EXCEPT !.m = c.id])
                   /\ result' = None
                   /\ fitLog' = FitLogged(data.v, refit, c.id, heap')
           ELSE /\ UNCHANGED <<heap, fcache>>
                /\ fitLog' = FitLogged(data.v, refit, fcache.filter, heap)
                /\ IF heap[fcache.filter].built = ""
                   THEN \* a filter without input format cannot filter
                        /\ result' = Raised("filter")
                        /\ UNCHANGED output
                   ELSE /\ output' = Append(output, [Tok("Instances", data.v, 0)
                                                     EXCEPT !.m = fcache.filter])
                        /\ result' = None

ExecuteFilter ==
    /\ kind = "Filter"
    /\ Began
    /\ (NoInput \/ Filter_do_execute)
    /\ Ended

\* ----------------------------------------------------------- ModelReader
\* serialization.read_all(fname): the objects of the file; it raises for
\* anything that is no file of serialized objects
CanReadAll(token) == token.t = "str" /\ token.v = "model.ser"

IsModel(o) == o.k \in {"Classifier", "Clusterer"}

\* mutant: objects after the second are ignored
ModelReader_outcome_extra_ignored(data) ==
    IF Len(data) = 0
    THEN [res |-> "Expected 1 or 2 objects", model |-> 0, header |-> ""]
    ELSE IF ~IsModel(data[1])
    THEN [res |-> "Unhandled class", model |-> 0, header |-> ""]
    ELSE IF Len(data) = 1 THEN [res |-> None, model |-> 1, header |-> ""]
    ELSE IF data[2].k = "Instances"
    THEN [res |-> None, model |-> 1, header |-> data[2].built]
    ELSE [res |-> Raised("Instances"), model |-> 0, header |-> ""]

\* mutant: the header of a two-object file is dropped
ModelReader_outcome_no_header(data) ==
    IF Len(data) \notin {1, 2}
    THEN [res |-> "Expected 1 or 2 objects", model |-> 0, header |-> ""]
    ELSE IF ~IsModel(data[1])
    THEN [res |-> "Unhandled class", model |-> 0, header |-> ""]
    ELSE [res |-> None, model |-> 1, header |-> ""]

\* what do_execute returns for the objects read, and the container it
\* builds: the model is object number `model` of data (0: no container)
ModelReader_outcome(data) ==
    LET n == Len(data)
        unhandled == [res |-> "Unhandled class", model |-> 0, header |-> ""]
    IN  IF n = 1
        THEN IF IsModel(data[1])
             THEN [res |-> None, model |-> 1, header |-> ""]
             ELSE unhandled
        ELSE IF n = 2
        THEN IF IsModel(data[1])
             THEN IF data[2].k = "Instances"
                  THEN [res |-> None, model |-> 1, header |-> data[2].built]
                  ELSE \* Instances(data[1]) rejects an object of another class
                       [res |-> Raised("Instances"), model |-> 0, header |-> ""]
             ELSE unhandled
        ELSE [res |-> "Expected 1 or 2 objects", model |-> 0, header |-> ""]

ModelReader_do_execute ==
    LET o == ModelReader_outcome(disk)
    IN  /\ input # NoneTok
        /\ UNCHANGED <<ldVars, storage, fcache, fitLog, classIndex, cvCall, removed, emitted>>
        /\ IF ~CanReadAll(input)
           THEN result' = Raised("read_all") /\ UNCHANGED <<heap, output>>
           ELSE /\ result' = o.res
                /\ IF o.res = None
                   THEN /\ heap' = heap \o disk
                        /\ output' = Append(output,
                                            ContainerTok(Len(heap) + o.model, o.header))
                   ELSE UNCHANGED <<heap, output>>

ExecuteModelReader ==
    /\ kind = "ModelReader"
    /\ Began
    /\ (NoInput \/ ModelReader_do_execute)
    /\ Ended

\* ------------------------------------------------------- MathExpression
\* the expression with {X} replaced by str() of the payload
MathExpr(expression, payload) == PyReplace(expression, PlaceholderX, PyStr(payload))

MathExpression_do_execute ==
    LET v == PyEval(MathExpr(resolve_option("expression"), input))
    IN  /\ input # NoneTok
        /\ UNCHANGED <<ldVars, storage, objVars, emitted>>
        /\ IF ~v.ok
           THEN result' = Raised("eval") /\ UNCHANGED output
           ELSE /\ output' = Append(output, EvalVal(v))
                /\ result' = None

ExecuteMathExpression ==
    /\ kind = "MathExpression"
    /\ Began
    /\ (NoInput \/ MathExpression_do_execute)
    /\ Ended

\* -------------------------------------------------------- ClassSelector
\* int(s): [ok, val]; ok = FALSE: ValueError
PyInt(s) ==
    LET a == ScanInt(s, 1)
    IN  [ok |-> a.ok /\ a.next = Len(s) + 1, val |-> a.val]

\* mutant: the index is interpreted before 'unset' is looked at
ClassSelector_index_before_unset(index, unset, n) ==
    IF index = IndexFirst THEN [res |-> None, idx |-> IF unset THEN NoClass ELSE 0]
    ELSE IF index = IndexLast
    THEN [res |-> None, idx |-> IF unset THEN NoClass ELSE n - 1]
    ELSE IF ~PyInt(index).ok THEN [res |-> Raised("ValueError"), idx |-> NoClass]
    ELSE IF PyInt(index).val - 1 >= n
    THEN [res |-> Raised("class_index"), idx |-> NoClass]
    ELSE [res |-> None, idx |-> IF unset THEN NoClass ELSE PyInt(index).val - 1]

\* mutant: the numeral is taken as a 0-based column
ClassSelector_index_zero_based(index, unset, n) ==
    IF unset THEN [res |-> None, idx |-> NoClass]
    ELSE IF index = IndexFirst THEN [res |-> None, idx |-> 0]
    ELSE IF index = IndexLast THEN [res |-> None, idx |-> n - 1]
    ELSE IF ~PyInt(index).ok THEN [res |-> Raised("ValueError"), idx |-> NoClass]
    ELSE IF PyInt(index).val >= n
    THEN [res |-> Raised("class_index"), idx |-> NoClass]
    ELSE [res |-> None, idx |-> PyInt(index).val]

\* the class index do_execute gives a dataset of n columns, or what it raises
ClassSelector_index(index, unset, n) ==
    IF unset THEN [res |-> None, idx |-> NoClass]
    ELSE IF index = IndexFirst THEN [res |-> None, idx |-> 0]
    ELSE IF index = IndexLast THEN [res |-> None, idx |-> n - 1]
    ELSE IF ~PyInt(index).ok THEN [res |-> Raised("ValueError"), idx |-> NoClass]
    ELSE IF PyInt(index).val - 1 >= n
    THEN \* the dataset rejects a column it does not have
         [res |-> Raised("class_index"), idx |-> NoClass]
    ELSE [res |-> None, idx |-> PyInt(index).val - 1]

ClassSelector_do_execute ==
    LET data == input
        c == ClassSelector_index(resolve_option("index"), resolve_option("unset"),
                                 NumAttributes(data.v))
    IN  /\ input # NoneTok
        /\ UNCHANGED <<ldVars, storage, heap, fcache, fitLog, cvCall, removed, emitted>>
        /\ IF data.t # "Instances"
           THEN \* a payload that is no dataset has none of the class methods
                /\ result' = Raised("AttributeError")
                /\ UNCHANGED <<classIndex, output>>
           ELSE IF c.res # None
           THEN result' = c.res /\ UNCHANGED <<classIndex, output>>
           ELSE \* the dataset itself is changed and wrapped in a new token
                /\ classIndex' = [classIndex EXCEPT ![data.v] = c.idx]
                /\ output' = Append(output, Tok("Instances", data.v, 0))
                /\ result' = None

ExecuteClassSelector ==
    /\ kind = "ClassSelector"
    /\ Began
    /\ (NoInput \/ ClassSelector_do_execute)
    /\ Ended

\* ---------------------------------------------------------- PassThrough
PassThrough_do_execute ==
    /\ UNCHANGED <<ldVars, storage, objVars, emitted>>
    /\ Forward
    /\ result' = None

ExecutePassThrough ==
    /\ kind = "PassThrough"
    /\ Began
    /\ PassThrough_do_execute
    /\ Ended

\* ---------------------------------------------------- EvaluationSummary
\* the text evl.summary(title, complexity) returns, with the text of
\* evl.matrix(title) appended if asked for: n tells which parts it has
SummaryTok(evl, title, complexity, matrix) ==
    [Tok("str", evl.v, (IF complexity THEN 1 ELSE 0) + (IF matrix THEN 2 ELSE 0))
        EXCEPT !.h = title]

EvaluationSummary_do_execute ==
    LET evl == input
        title == resolve_option("title")
        complexity == resolve_option("complexity")
        matrix == resolve_option("matrix")
    IN  /\ input # NoneTok
        /\ UNCHANGED <<ldVars, storage, objVars, emitted>>
        /\ IF evl.t # "Evaluation"
           THEN \* a payload that is no Evaluation has no summary method
                result' = Raised("AttributeError") /\ UNCHANGED output
           ELSE \/ /\ output' = Append(output, SummaryTok(evl, title, complexity, matrix))
                   /\ result' = None
                \/ \* the evaluation may have no confusion matrix to give
                   /\ matrix
                   /\ result' = Raised("matrix")
                   /\ UNCHANGED output

ExecuteEvaluationSummary ==
    /\ kind = "EvaluationSummary"
    /\ Began
    /\ (NoInput \/ EvaluationSummary_do_execute)
    /\ Ended

\* ----------------------------------------------------------- DeleteFile
\* the characters of the paths of the file system
PathText(p) ==
    IF p = "a.arff" THEN <<"a", ".", "a", "r", "f", "f">>
    ELSE IF p = "b.arff" THEN <<"b", ".", "a", "r", "f", "f">>
    ELSE IF p = "empty.arff" THEN <<"e", "m", "p", "t", "y", ".", "a", "r", "f", "f">>
    ELSE IF p = "missing" THEN <<"m", "i", "s", "s", "i", "n", "g">>
    ELSE IF p = "dir" THEN <<"d", "i", "r">>
    ELSE <<"m", "o", "d", "e", "l", ".", "s", "e", "r">>

\* str(self.input.payload)
DeleteFile_fname(token) ==
    IF token.t = "str" THEN PathText(token.v) ELSE PyStr(token)

\* the path a name denotes; "": no entry of the file system has that name
FileAt(text) ==
    IF \E p \in Paths : PathText(p) = text
    THEN CHOOSE p \in Paths : PathText(p) = text
    ELSE ""

\* re.compile(pat): a '*' needs something to repeat
ReValid(pat) ==
    \A i \in 1..Len(pat) : (pat[i] = "*") => (i > 1 /\ pat[i - 1] # "*")

ReAtom(a, ch) == a = "." \/ a = ch

\* pattern.match(s): pat[i..] matches s from position j on; the match is
\* anchored at the start of s only
RECURSIVE ReMatch(_, _, _, _)
ReMatch(pat, i, s, j) ==
    IF i > Len(pat) THEN TRUE
    ELSE IF i < Len(pat) /\ pat[i + 1] = "*"
    THEN \/ ReMatch(pat, i + 2, s, j)
         \/ (j <= Len(s) /\ ReAtom(pat[i], s[j]) /\ ReMatch(pat, i, s, j + 1))
    ELSE j <= Len(s) /\ ReAtom(pat[i], s[j]) /\ ReMatch(pat, i + 1, s, j + 1)

\* os.remove(p) succeeds on a file that is there
CanRemove(p, gone) == p \in Paths /\ PathExists(p) /\ PathIsFile(p) /\ p \notin gone

DeleteFile_do_execute ==
    LET fname == DeleteFile_fname(input)
        spattern == resolve_option("regexp")
        p == FileAt(fname)
    IN  /\ input # NoneTok
        /\ UNCHANGED <<ldVars, storage, heap, fcache, fitLog, classIndex, cvCall, emitted>>
        /\ IF spattern # MatchAll /\ ~ReValid(spattern)
           THEN result' = Raised("re.error") /\ UNCHANGED <<output, removed>>
           ELSE IF spattern = MatchAll \/ ReMatch(spattern, 1, fname, 1)
           THEN IF CanRemove(p, removed)
                THEN /\ removed' = removed \cup {p}
                     /\ Forward
                     /\ result' = None
                ELSE \* os.remove raises on a missing path and on a directory
                     result' = Raised("OSError") /\ UNCHANGED <<output, removed>>
           ELSE /\ Forward
                /\ result' = None
                /\ UNCHANGED removed

ExecuteDeleteFile ==
    /\ kind = "DeleteFile"
    /\ Began
    /\ (NoInput \/ DeleteFile_do_execute)
    /\ Ended

\* -------------------------------------------------------- CrossValidate
\* mutant: the configured model itself is cross-validated
CrossValidate_copy_none(h) == [heap |-> h, id |-> Template]

\* the copy of the configured model that is cross-validated
CrossValidate_copy(h) == MakeCopy(h, Template)

\* mutant: an associator is taken for a model that can be cross-validated
CrossValidate_handles_any_model(k) == k \in ModelKinds

\* isinstance(cls, Classifier) or isinstance(cls, Clusterer)
CrossValidate_handles(k) == k \in {"Classifier", "Clusterer"}

\* the parameters Evaluation.crossvalidate_model declares after self, and the
\* arguments do_execute passes to it
CrossvalidateModelParams == 4
CrossValidateArgs == 5
\* a call of a method without defaults: TypeError unless the counts agree
ArityOk(declared, given) == declared = given

CrossValidate_do_execute ==
    LET data == input
        cls == heap[Template]
        c == CrossValidate_copy(heap)
        evl == IF cls.k = "Classifier"
               THEN [Tok("Evaluation", data.v, 0) EXCEPT !.m = c.id]
               ELSE [Tok("loglikelihood", data.v, 0) EXCEPT !.m = c.id]
    IN  /\ input # NoneTok
        /\ UNCHANGED <<ldVars, storage, fcache, fitLog, classIndex, removed, emitted>>
        /\ IF CrossValidate_handles(cls.k)
           THEN IF data.t # "Instances"
                THEN \* the evaluation rejects a payload that is no dataset
                     /\ heap' = c.heap
                     /\ result' = Raised("crossvalidate")
                     /\ UNCHANGED <<output, cvCall>>
                ELSE IF cls.k = "Classifier"
                        /\ ~ArityOk(CrossvalidateModelParams, CrossValidateArgs)
                THEN \* the call of Evaluation.crossvalidate_model is rejected
                     /\ heap' = c.heap
                     /\ result' = Raised("TypeError")
                     /\ UNCHANGED <<output, cvCall>>
                ELSE \/ \* crossvalidate_model may train the object it is given
                        /\ heap' \in {c.heap, Build(c.heap, c.id, data.v)}
                        /\ cvCall' = [folds |-> resolve_option("folds"),
                                      seed |-> resolve_option("seed")]
                        /\ output' = Append(output, evl)
                        /\ result' = None
                     \/ /\ heap' = c.heap
                        /\ result' = Raised("crossvalidate")
                        /\ UNCHANGED <<output, cvCall>>
           ELSE /\ result' = "Unhandled class"
                /\ UNCHANGED <<heap, output, cvCall>>

ExecuteCrossValidate ==
    /\ kind = "CrossValidate"
    /\ Began
    /\ (NoInput \/ CrossValidate_do_execute)
    /\ Ended

\* ------------------------------------------------------- specification
Next ==
    \/ \E token \in TokenPool(kind) : SetInput(token)
    \/ ExecuteLoadDataset
    \/ ExecuteSetStorageValue
    \/ ExecuteDeleteStorageValue
    \/ ExecuteInitStorageValue
    \/ ExecuteUpdateStorageValue
    \/ ExecuteTrain
    \/ ExecuteFilter
    \/ ExecuteModelReader
    \/ ExecuteMathExpression
    \/ ExecuteClassSelector
    \/ ExecuteCrossValidate
    \/ ExecuteDeleteFile
    \/ ExecutePassThrough
    \/ ExecuteEvaluationSummary
    \/ Output
    \/ StopExecution
    \/ Wrapup

Spec == Init /\ [][Next]_vars

\* -------------------------------------------- classifiers.py: main()
\* command-line words: flags that take a value, flags that take none, a flag
\* getopt does not know, and a word that is no flag
MaxArgs == 4
ValueFlags == {"-t", "-X"}
PlainFlags == {"-h", "-v"}
Words == ValueFlags \cup PlainFlags \cup {"-q", "w"}
CommandLines == UNION {[1..n -> Words] : n \in 0..MaxArgs}

\* getopt.getopt(args, "j:X:t:T:c:d:l:x:s:voikm:g:h"): options are read up to
\* the first word that is no option; ok = FALSE: GetoptError
RECURSIVE Getopt(_, _)
Getopt(rest, found) ==
    IF rest = <<>> \/ Head(rest) \notin (ValueFlags \cup PlainFlags \cup {"-q"})
    THEN [ok |-> TRUE, optlist |-> found, optargs |-> rest]
    ELSE IF Head(rest) \in ValueFlags
    THEN IF Len(rest) = 1
         THEN [ok |-> FALSE, optlist |-> found, optargs |-> <<>>]
         ELSE Getopt(SubSeq(rest, 3, Len(rest)), Append(found, <<rest[1], rest[2]>>))
    ELSE IF Head(rest) \in PlainFlags
    THEN Getopt(Tail(rest), Append(found, <<rest[1], "">>))
    ELSE [ok |-> FALSE, optlist |-> found, optargs |-> <<>>]

\* the loop over optlist: params, train and heap
RECURSIVE MainCollectOpts(_, _)
MainCollectOpts(ol, acc) ==
    IF ol = <<>> THEN acc
    ELSE LET opt == Head(ol)
         IN  MainCollectOpts(Tail(ol),
                IF opt[1] = "-X" THEN [acc EXCEPT !.heap = opt[2]]
                ELSE IF opt[1] = "-t"
                THEN [acc EXCEPT !.params = @ \o <<opt[1], opt[2]>>, !.train = opt[2]]
                ELSE IF opt[1] = "-v"
                THEN [acc EXCEPT !.params = Append(@, opt[1])]
                ELSE acc)

\* main(args) is entered: the options are parsed
MainGetopt ==
    LET g == Getopt(args, <<>>)
    IN  /\ pc = "called"
        /\ IF g.ok
           THEN optlist' = g.optlist /\ optargs' = g.optargs /\ pc' = "parsed"
           ELSE pc' = "raised" /\ UNCHANGED <<optlist, optargs>>
        /\ UNCHANGED <<args, params, train, jvm, printed>>

\* no classifier classname: exception; -h: usage is printed and main returns
MainCheck ==
    /\ pc = "parsed"
    /\ IF Len(optargs) = 0
       THEN pc' = "raised" /\ UNCHANGED printed
       ELSE IF \E i \in 1..Len(optlist) : optlist[i][1] = "-h"
       THEN pc' = "returned" /\ printed' = "usage"
       ELSE pc' = "collect" /\ UNCHANGED printed
    /\ UNCHANGED <<args, optlist, optargs, params, train, jvm>>

\* the options are sorted into params, train and heap; no train file: exception
MainCollect ==
    LET c == MainCollectOpts(optlist, [params |-> <<>>, train |-> NoTrain, heap |-> "None"])
    IN  /\ pc = "collect"
        /\ params' = c.params
        /\ train' = c.train
        /\ jvm' = [jvm EXCEPT !.max_heap_size = c.heap]
        /\ pc' = IF c.train = NoTrain THEN "raised" ELSE "start"
        /\ UNCHANGED <<args, optlist, optargs, printed>>

\* jvm.start(jars, max_heap_size=heap), then the command line is logged
MainStart ==
    /\ pc = "start"
    /\ jvm' = [jvm EXCEPT !.starts = @ + 1]
    /\ pc' = "try"
    /\ UNCHANGED <<args, optlist, optargs, params, train, printed>>

\* mutant: an exception of the try block leaves main at once
MainTry_uncaught ==
    /\ pc = "try"
    /\ \/ printed' = "evaluation" /\ pc' = "finally"
       \/ printed' = "nothing" /\ pc' = "raised"
    /\ UNCHANGED <<args, optlist, optargs, params, train, jvm>>

\* the try block: the classifier is created, configured and evaluated and the
\* evaluation is printed; if any of it raises, the exception is printed
MainTry ==
    /\ pc = "try"
    /\ \/ printed' = "evaluation"
       \/ printed' = "exception"
    /\ pc' = "finally"
    /\ UNCHANGED <<args, optlist, optargs, params, train, jvm>>

\* finally: jvm.stop()
MainFinally ==
    /\ pc = "finally"
    /\ jvm' = [jvm EXCEPT !.stops = @ + 1]
    /\ pc' = "returned"
    /\ UNCHANGED <<args, optlist, optargs, params, train, printed>>

\* the flow variables, which main() does not touch
flowVars == <<kind, supplied, opts, help, handler, disk, storage0, self, parked,
              input, output, stopped, ldVars, storage, objVars, result, lastOp,
              lastOut, emitted, fresh, execs>>

InitMain ==
    /\ ActorInit
    /\ kind = "PassThrough"
    /\ pc = "called"
    /\ args \in CommandLines
    /\ MainLocals
    /\ NoJavaObjects

NextMain ==
    /\ UNCHANGED <<flowVars, wrapVars>>
    /\ \/ MainGetopt
       \/ MainCheck
       \/ MainCollect
       \/ MainStart
       \/ MainTry
       \/ MainFinally

\* main() runs to its end
SpecMain == InitMain /\ [][NextMain]_vars /\ WF_vars(NextMain)

\* ------------------------------ classifiers.py: the wrapper constructors
MaxJObjs == 4
\* Java classes: a plain classifier, a single-classifier enhancer, the
\* filtered classifier (an enhancer too) and a combiner
JavaClasses == {"ZeroR", "Bagging", "FilteredClassifier", "Vote"}
\* the Python wrapper classes with a constructor of their own
WrapperClasses == {"SingleClassifierEnhancer", "FilteredClassifier",
                   "MultipleClassifiersCombiner"}
\* the Java type a wrapper class enforces, and the classes of that type
EnforcedType(w) == w
IsA(c, type) ==
    IF type = "SingleClassifierEnhancer" THEN c \in {"Bagging", "FilteredClassifier"}
    ELSE IF type = "FilteredClassifier" THEN c = "FilteredClassifier"
    ELSE c = "Vote"

\* new_instance(classname): a new object of the class, with default options
JObj(c, o) == [classname |-> c, options |-> o]
NewInstance(objs, c) == Append(objs, JObj(c, "default"))

\* the caller creates a Java object, or sets the options of one
CreateJObject(c) ==
    /\ Len(jobjects) < MaxJObjs
    /\ jobjects' = NewInstance(jobjects, c)
    /\ UNCHANGED wrapper

SetJOptions(i) ==
    /\ jobjects[i].options = "default"
    /\ jobjects' = [jobjects EXCEPT ![i].options = "set"]
    /\ UNCHANGED wrapper

\* the constructor of wrapper class w, called with a class name and a
\* JB_Object (0: None); FilteredClassifier takes no class name and fills in
\* its own.  A failed enforce_type raises and no wrapper is made.
Construct(w, classname, jobject) ==
    LET cn0 == IF w = "FilteredClassifier" /\ jobject = 0
               THEN "FilteredClassifier" ELSE classname
        h1 == IF jobject = 0 THEN NewInstance(jobjects, cn0) ELSE jobjects
        j1 == IF jobject = 0 THEN Len(h1) ELSE jobject
        cn == IF cn0 = "None" \/ (w = "FilteredClassifier" /\ jobject # 0)
              THEN h1[j1].classname ELSE cn0
        \* jobject = <w>.new_instance(classname)
        h2 == NewInstance(h1, cn)
        j2 == Len(h2)
    IN  /\ Len(jobjects) + 2 <= MaxJObjs
        /\ classname # "None" \/ jobject # 0 \/ w = "FilteredClassifier"
        /\ w = "FilteredClassifier" => classname = "None"
        /\ jobjects' = h2
        /\ wrapper' = IF IsA(h2[j2].classname, EnforcedType(w))
                      THEN [cls |-> w, classname |-> cn, jobject |-> j2,
                            given |-> jobject]
                      ELSE NoWrapper

InitWrap ==
    /\ ActorInit
    /\ kind = "PassThrough"
    /\ pc = "idle"
    /\ args = <<>>
    /\ MainLocals
    /\ NoJavaObjects

NextWrap ==
    /\ UNCHANGED <<flowVars, mainVars>>
    /\ \/ \E c \in JavaClasses : CreateJObject(c)
       \/ \E i \in 1..Len(jobjects) : SetJOptions(i)
       \/ \E w \in WrapperClasses, c \in JavaClasses \cup {"None"},
             j \in 0..Len(jobjects) : Construct(w, c, j)

SpecWrap == InitWrap /\ [][NextWrap]_vars

\* ------------------------------------- several actors on one storage
\* the scheduler hands control to actor a: a lifecycle step has run to its
\* end, the running actor's input, queue and result are set aside and a's are
\* taken up; the storage is the one object all of them hold
Schedule(a) ==
    /\ a # self
    /\ self' = a
    /\ parked' = [b \in ActorIds \ {a} |->
                    IF b = self
                    THEN [input |-> input, output |-> output, result |-> result,
                          fresh |-> fresh]
                    ELSE parked[b]]
    /\ input' = parked[a].input
    /\ output' = parked[a].output
    /\ result' = parked[a].result
    /\ fresh' = parked[a].fresh
    /\ lastOp' = "schedule"
    /\ UNCHANGED <<mainVars, wrapVars, kind, supplied, opts, help, handler, disk, storage0, stopped, ldVars, storage,
                   objVars, lastOut, emitted, execs>>

\* a flow of UpdateStorageValue actors with the default expression and one
\* storage name, attached to one storage handler
InitShared ==
    /\ Init
    /\ kind = "UpdateStorageValue"
    /\ handler
    /\ resolve_option("expression") = ExprIncrement

NextShared ==
    \/ \E token \in TokenPool(kind) : SetInput(token)
    \/ ExecuteUpdateStorageValue
    \/ Output
    \/ \E a \in ActorIds : Schedule(a)

SpecShared == InitShared /\ [][NextShared]_vars

\* ================================================================ claims
\* an execute() step, and the do_execute result it left
ExecuteStep == execs' # execs

\* the payload classes the design table gives each transformer
AcceptedTypes(k) ==
    IF k \in {"LoadDataset", "ModelReader"} THEN {"str"}
    ELSE IF k \in {"Train", "Filter", "CrossValidate", "ClassSelector"}
    THEN {"Instances"}
    ELSE {"str", "int", "float", "Instances"}

C2_RefitIffSchemaChanged ==
    \A i \in 1..Len(fitLog) :
        /\ fitLog[i].fit <=> (i = 1 \/ fitLog[i].schema # fitLog[i - 1].schema)
        /\ ~fitLog[i].fit => fitLog[i].fittedOn = fitLog[i].schema

\* the models of the containers queued by Train
TrainedModels == {output[i].m : i \in 1..Len(output)}

\* C3: no step of a Train actor changes the configured template model, and
\* the models of the containers it emits are copies: none is the template and
\* no two runs share one.
C3_TrainLeavesTemplate ==
    /\ [][kind = "Train" => heap'[Template] = heap[Template]]_vars
    /\ [](kind = "Train" =>
            /\ Template \notin TrainedModels
            /\ Cardinality(TrainedModels) = Len(output))

C3_Witness ==
    /\ kind = "Train"
    /\ Len(output) = 2
    /\ heap[Template].built = ""
    /\ \A i \in 1..2 : heap[output[i].m].built # ""
    /\ output[1].m # output[2].m

\* C4: in incremental mode the tokens output() has returned since the load are
\* the first rows of the source, in source order, and when output() finds the
\* iterator exhausted they are exactly the N rows of the source.
C4_IncrementalYieldsEveryRow ==
    /\ [](iterator.set =>
            emitted = SubSeq(AllRows(iterator.file), 1, iterator.pos))
    /\ [][(iterator.set /\ ~iterator'.set /\ lastOp' = "output")
            => (lastOut' = NoneTok /\ emitted' = AllRows(iterator.file))]_vars

C4_Witness ==
    /\ kind = "LoadDataset"
    /\ resolve_option("incremental")
    /\ lastOp = "output"
    /\ loader.set /\ ~iterator.set
    /\ lastOut = NoneTok
    /\ Len(emitted) = MaxRows
    /\ emitted = AllRows("a.arff")

\* C5: right after output() has returned the token of the last row of the
\* source, has_output() is false.  (Fails: the iterator is still open.)
C5_NoOutputAfterLastRow ==
    (/\ kind = "LoadDataset"
     /\ lastOp = "output"
     /\ lastOut.t = "Instance"
     /\ lastOut.n = NumRows(lastOut.v))
        => ~LoadDataset_has_output(output, iterator)

\* C6: stop_execution() closes the iterator, and while no iterator is open
\* output() returns no row: the rows an interrupted load had left are never
\* returned.
C6_StopEndsIteration ==
    [][/\ lastOp' = "stop" => (~iterator'.set /\ ~loader'.set /\ result' = result)
       /\ (~iterator.set /\ lastOp' = "output") => lastOut'.t # "Instance"
      ]_vars

C6_Witness ==
    /\ kind = "LoadDataset"
    /\ stopped
    /\ lastOp = "output"
    /\ lastOut = NoneTok
    /\ ~loader.set /\ ~iterator.set
    /\ Len(emitted) = 1
    /\ emitted[1] = RowTok("a.arff", 1)

\* C7: with the default expression "int({X} + 1)" and a number stored under
\* the configured name, every execution succeeds, after k executions the entry
\* is the initial number plus k, and every other entry is as it was.
C7_UpdateAddsOne ==
    LET nm == resolve_option("storage_name")
    IN  (/\ kind = "UpdateStorageValue"
         /\ handler
         /\ resolve_option("expression") = ExprIncrement
         /\ storage0[nm].t = "int")
        => /\ storage[nm] = IntVal(storage0[nm].n + execs)
           /\ \A other \in Names \ {nm} : storage[other] = storage0[other]
           /\ result = None

C7_Witness ==
    LET nm == resolve_option("storage_name")
    IN  /\ kind = "UpdateStorageValue"
        /\ handler
        /\ resolve_option("expression") = ExprIncrement
        /\ storage0[nm] = IntVal(1)
        /\ execs = 2
        /\ storage[nm] = IntVal(3)

\* C8: when the file holds neither one nor two objects, do_execute returns
\* the count-mismatch message and the output queue is unchanged.
C8_WrongCountIsError ==
    [][(/\ kind = "ModelReader"
        /\ ExecuteStep
        /\ CanReadAll(input)
        /\ Len(disk) \notin {1, 2})
        => (result' = "Expected 1 or 2 objects" /\ output' = output)]_vars

C8_Witness ==
    /\ kind = "ModelReader"
    /\ lastOp = "execute"
    /\ Len(disk) = 3
    /\ result = "Expected 1 or 2 objects"
    /\ output = <<>>

\* C9: one object that is a classifier or clusterer gives one container with
\* that model and no header; two objects, a model and a dataset header, give
\* one container with the first as model and the second as header; a first
\* object that is no model gives 'Unhandled class' and no token.
C9_ContainerFromObjects ==
    [][(/\ kind = "ModelReader"
        /\ ExecuteStep
        /\ CanReadAll(input)
        /\ Len(disk) \in {1, 2})
        => LET model == Len(heap) + 1
           IN  IF ~IsModel(disk[1])
               THEN result' = "Unhandled class" /\ output' = output
               ELSE IF Len(disk) = 1
               THEN /\ result' = None
                    /\ output' = Append(output, ContainerTok(model, ""))
                    /\ heap'[model] = disk[1]
               ELSE disk[2].k = "Instances" =>
                    /\ result' = None
                    /\ output' = Append(output, ContainerTok(model, disk[2].built))
                    /\ output'[Len(output')].h # ""
                    /\ heap'[model] = disk[1]]_vars

C9_Witness ==
    /\ kind = "ModelReader"
    /\ lastOp = "execute"
    /\ result = None
    /\ Len(disk) = 2
    /\ Len(output) = 1
    /\ output[1].t = "ModelContainer"
    /\ heap[output[1].m].k = "Clusterer"
    /\ output[1].h = "A"

\* C10: a storage actor without storage handler returns 'No storage handler
\* available!' from every execution, raises nothing and queues no token.
C10_NoHandlerIsError ==
    (kind \in StorageKinds /\ ~handler)
        => /\ output = <<>>
           /\ storage = storage0
           /\ lastOp = "execute" => result = "No storage handler available!"

C10_Witness ==
    /\ kind = "UpdateStorageValue"
    /\ ~handler
    /\ lastOp = "execute"
    /\ input # NoneTok
    /\ result = "No storage handler available!"

\* C11: stop_execution() and wrapup() of LoadDataset, called in any state and
\* in any order, leave the actor without loader and without iterator, and a
\* call that follows another of the two changes nothing else of the actor.
C11_StopWrapupIdempotent ==
    [][(kind = "LoadDataset" /\ lastOp' \in {"stop", "wrapup"})
        => /\ loader' = NoLoader
           /\ iterator' = NoIterator
           /\ UNCHANGED <<input, output, result, emitted, storage, heap, fcache>>
           /\ lastOp \in {"stop", "wrapup"} => UNCHANGED <<loader, iterator>>
           /\ stopped' = (stopped \/ lastOp' = "stop")]_vars

C11_Witness ==
    /\ kind = "LoadDataset"
    /\ stopped
    /\ lastOp = "wrapup"
    /\ execs = 1
    /\ Len(emitted) = 1
    /\ loader = NoLoader /\ iterator = NoIterator

\* C12: stop_execution() and wrapup() of a Filter clear the memoized fitted
\* filter and the cached header.  (Fails: Filter overrides neither, the cache
\* outlives both calls.)
C12_FilterStopClearsCache ==
    [][(kind = "Filter" /\ lastOp' \in {"stop", "wrapup"}) => fcache' = NoCache]_vars

\* C13: post_execute leaves no input when the inherited post_execute returned
\* None and leaves the input as it is when that returned an error message; an
\* execute() that returns None has cleared the input, one that fails has not
\* touched it.
C13_PostExecuteClearsInput ==
    [][ExecuteStep =>
        /\ result' = None => input' = NoneTok
        /\ result' # None => input' = input
        /\ \A tok \in TokenPool(kind) :
              /\ post_execute(None, tok) = NoneTok
              /\ post_execute("error", tok) = tok]_vars

C13_Witness ==
    /\ lastOp = "execute"
    /\ result = None
    /\ input = NoneTok
    /\ execs = 1
    /\ Len(output) = 1
    /\ output[1] # NoneTok

\* C14: no step of a CrossValidate or Filter actor changes the configured
\* template object; the object that is cross-validated or fitted (the model
\* of an emitted evaluation, the memoized filter) is never the template.
C14_TemplateNeverMutated ==
    /\ [][(kind \in {"CrossValidate", "Filter"})
            => (heap'[Template] = heap[Template])]_vars
    /\ [](/\ kind = "Filter" => fcache.filter # Template
          /\ kind = "CrossValidate" =>
                \A i \in 1..Len(output) : output[i].m \notin {0, Template})

C14_Witness ==
    /\ kind = "CrossValidate"
    /\ execs = 2
    /\ Len(output) = 2
    /\ heap[Template].built = ""
    /\ heap[output[1].m].built = "A"
    /\ heap[output[2].m].built = "B"

\* C15: a do_execute of MathExpression, InitStorageValue or UpdateStorageValue
\* that fails on its expression (it does not parse, or the storage name has no
\* value) returns an error message; it does not raise.  (Fails: eval and the
\* storage lookup raise, and nothing in do_execute catches.)
C15_BadExpressionIsErrorString ==
    (/\ kind \in {"MathExpression", "InitStorageValue", "UpdateStorageValue"}
     /\ lastOp = "execute")
        => result \notin {Raised("eval"), Raised("KeyError")}

\* C16: do_execute of LoadDataset on a path that does not exist, or that is
\* a directory, returns an error message and leaves loader, iterator and
\* output queue as they were.
C16_BadPathLeavesActor ==
    [][(/\ kind = "LoadDataset"
        /\ ExecuteStep
        /\ input.t = "str"
        /\ input.v \in {"missing", "dir"})
        => /\ result' = IF input.v = "missing" THEN "File does not exist!"
                        ELSE "Location is not a file!"
           /\ UNCHANGED <<loader, iterator, output, emitted>>]_vars

C16_Witness ==
    /\ kind = "LoadDataset"
    /\ lastOp = "execute"
    /\ input = Tok("str", "dir", 0)
    /\ result = "Location is not a file!"
    /\ loader = [set |-> TRUE, file |-> "a.arff"]
    /\ iterator = [set |-> TRUE, file |-> "a.arff", pos |-> 1]

\* C17: on a dataset of N columns ClassSelector sets the class index to N-1
\* for index "last" and to 0 for index "first", and with unset = true it
\* clears the class whatever 'index' is; the dataset goes out in one token and
\* no other dataset is touched.
C17_FirstLastUnset ==
    [][(kind = "ClassSelector" /\ ExecuteStep /\ input.t = "Instances")
        => LET d == input.v
               unset == resolve_option("unset")
               index == resolve_option("index")
           IN  /\ unset => (result' = None /\ classIndex'[d] = NoClass)
               /\ (~unset /\ index = IndexLast)
                    => (result' = None /\ classIndex'[d] = NumAttributes(d) - 1)
               /\ (~unset /\ index = IndexFirst)
                    => (result' = None /\ classIndex'[d] = 0)
               /\ result' = None => output' = Append(output, Tok("Instances", d, 0))
               /\ \A o \in Schemas \ {d} : classIndex'[o] = classIndex[o]]_vars

C17_Witness ==
    /\ kind = "ClassSelector"
    /\ resolve_option("unset")
    /\ resolve_option("index") = <<"x">>
    /\ lastOp = "execute"
    /\ result = None
    /\ Len(output) = 1
    /\ output[1].v = "A"
    /\ classIndex["A"] = NoClass
    /\ classIndex["B"] = 0

\* C18: MathExpression with expression "1 + {X}" on the payload 4 emits one
\* token whose payload is the float 5.0.  (Fails: str(4) is "4" and
\* eval("1 + 4") is the int 5.)
C18_OnePlusFourIsFloat ==
    [][(/\ kind = "MathExpression"
        /\ ExecuteStep
        /\ resolve_option("expression") = ExprOnePlusX
        /\ input = IntVal(4))
        => (result' = None /\ output' = Append(output, Tok("float", "", 5)))]_vars

\* C19: whichever order the scheduler runs the UpdateStorageValue actors of a
\* flow in, each step to its end, no update is lost: when the entry starts as
\* a number every execution succeeds and after k executions in total the
\* entry is that number plus k; otherwise no execution succeeds and the
\* storage stays as it was.
C19_NoLostUpdate ==
    LET nm == resolve_option("storage_name")
    IN  IF storage0[nm].t = "int"
        THEN /\ storage = [storage0 EXCEPT ![nm] = IntVal(storage0[nm].n + execs)]
             /\ lastOp = "execute" => result = None
        ELSE /\ storage = storage0
             /\ lastOp = "execute" => IsRaised(result)

C19_Witness ==
    /\ self = "update2"
    /\ lastOp = "execute"
    /\ parked["update1"].output # <<>>
    /\ Len(output) = 2
    /\ execs = 3
    /\ storage0[resolve_option("storage_name")] = IntVal(9)
    /\ storage[resolve_option("storage_name")] = IntVal(12)

\* C20: once stop_execution() has been called on a LoadDataset actor, no
\* execute() queues a token or opens an iterator and no output() returns a
\* token.  (Fails: neither do_execute nor output() looks at the stop flag, and
\* stop_execution leaves the queue as it is.)
C20_StoppedIsTerminal ==
    [][(kind = "LoadDataset" /\ stopped) =>
        /\ ExecuteStep => (output' = output /\ ~iterator'.set)
        /\ lastOp' = "output" => lastOut' = NoneTok]_vars

\* C21: no transformer changes the payload of the token it consumes: after a
\* ClassSelector step the dataset the input token carries has the class index
\* it had before.  (Fails: ClassSelector sets the class index on the payload
\* object itself and wraps that same object in the new token.)
C21_InputPayloadUnchanged ==
    [][(kind = "ClassSelector" /\ ExecuteStep /\ input.t = "Instances")
        => classIndex'[input.v] = classIndex[input.v]]_vars

\* C22: every execution of DeleteStorageValue with a storage handler returns
\* None and forwards the input token, whether or not the name was present;
\* afterwards the name is absent and every other entry is as it was.
C22_DeleteAbsentIsNoOp ==
    [][(kind = "DeleteStorageValue" /\ handler /\ ExecuteStep)
        => LET nm == resolve_option("storage_name")
           IN  /\ result' = None
               /\ output' = Append(output, input)
               /\ storage'[nm] = Absent
               /\ \A o \in Names \ {nm} : storage'[o] = storage[o]
               /\ storage[nm] = Absent => storage' = storage]_vars

C22_Witness ==
    /\ kind = "DeleteStorageValue"
    /\ handler
    /\ lastOp = "execute"
    /\ execs = 1
    /\ resolve_option("storage_name") = "k"
    /\ storage0["k"] = Absent
    /\ storage = storage0
    /\ storage["unknown"] = IntVal(9)
    /\ result = None
    /\ output = <<Tok("str", "a.arff", 0)>>

\* C23: a successful SetStorageValue execution stores the payload of the
\* input token under the configured name, leaves every other entry as it was
\* and forwards that same token as the one token it queues.
C23_SetStoresPayload ==
    [][(kind = "SetStorageValue" /\ ExecuteStep /\ result' = None)
        => LET nm == resolve_option("storage_name")
           IN  /\ input # NoneTok
               /\ storage'[nm] = input
               /\ \A o \in Names \ {nm} : storage'[o] = storage[o]
               /\ output' = Append(output, input)]_vars

C23_Witness ==
    /\ kind = "SetStorageValue"
    /\ lastOp = "execute"
    /\ execs = 1
    /\ result = None
    /\ resolve_option("storage_name") = "k"
    /\ storage0["k"] = IntVal(1)
    /\ storage["k"] = Tok("str", "a.arff", 0)
    /\ storage["unknown"] = storage0["unknown"]
    /\ storage["unknown"] = IntVal(9)
    /\ output = <<storage["k"]>>

\* C24: a successful Train execution queues exactly one token, a container
\* whose model is a new object of the configured model's class trained on the
\* input dataset and whose header is the schema of that dataset.
C24_TrainEmitsContainer ==
    [][(kind = "Train" /\ ExecuteStep /\ result' = None)
        => LET id == Len(heap) + 1
           IN  /\ heap[Template].k \in ModelKinds
               /\ input.t = "Instances"
               /\ output' = Append(output, ContainerTok(id, input.v))
               /\ id # Template
               /\ Len(heap') = id
               /\ heap'[id] = Obj(heap[Template].k, input.v)]_vars

C24_Witness ==
    /\ kind = "Train"
    /\ lastOp = "execute"
    /\ result = None
    /\ heap[Template] = Obj("Associator", "A")
    /\ Len(output) = 1
    /\ output[1].t = "ModelContainer"
    /\ output[1].h = "B"
    /\ heap[output[1].m] = Obj("Associator", "B")

\* C25: an execution of CrossValidate on a dataset token with a classifier or
\* a clusterer configured fails only when the evaluation itself fails;
\* otherwise it queues exactly one token, an Evaluation for a classifier and
\* a log-likelihood for a clusterer, from a cross-validation run with the
\* configured folds and seed.  (Fails: for a classifier the call of
\* crossvalidate_model passes one argument too many and raises TypeError.)
C25_CrossValidateEmitsOne ==
    [][(/\ kind = "CrossValidate"
        /\ ExecuteStep
        /\ input.t = "Instances"
        /\ heap[Template].k \in {"Classifier", "Clusterer"})
        => /\ result' \in {None, Raised("crossvalidate")}
           /\ (result' = None) =>
                /\ Len(output') = Len(output) + 1
                /\ SubSeq(output', 1, Len(output)) = output
                /\ output'[Len(output')].t =
                      (IF heap[Template].k = "Classifier" THEN "Evaluation"
                       ELSE "loglikelihood")
                /\ cvCall' = [folds |-> resolve_option("folds"),
                              seed |-> resolve_option("seed")]]_vars

\* C26: with a 'setup' that Train (anything but classifier, clusterer,
\* associator) or CrossValidate (anything but classifier, clusterer) does not
\* recognise, do_execute returns 'Unhandled class', creates and trains no
\* object and queues no token.
C26_UnhandledSetup ==
    [][(/\ ExecuteStep
        /\ input # NoneTok
        /\ \/ (kind = "Train" /\ heap[Template].k = "other")
           \/ (kind = "CrossValidate" /\ heap[Template].k \in {"Associator", "other"}))
        => (/\ result' = "Unhandled class"
            /\ UNCHANGED <<heap, output, cvCall>>)]_vars

C26_Witness ==
    /\ kind = "CrossValidate"
    /\ heap = <<Obj("Associator", "")>>
    /\ lastOp = "execute"
    /\ result = "Unhandled class"
    /\ output = <<>>
    /\ execs > 0

\* C29: a numeral as 'index' is a 1-based column number: with unset false and
\* index k, 1 <= k <= N, ClassSelector makes the 0-based column k-1 the class
\* of the dataset, so "1" selects column 0 as "first" does and "N" column
\* N-1 as "last" does.
C29_NumericIndexOneBased ==
    [][(/\ kind = "ClassSelector"
        /\ ExecuteStep
        /\ input.t = "Instances"
        /\ ~resolve_option("unset"))
        => \A k \in 1..NumAttributes(input.v) :
              (resolve_option("index") = IntStr(k))
              => (/\ result' = None
                  /\ classIndex'[input.v] = k - 1
                  /\ output' = Append(output, Tok("Instances", input.v, 0)))]_vars

C29_Witness ==
    /\ kind = "ClassSelector"
    /\ opts.index = IntStr(MaxCols)
    /\ ~opts.unset
    /\ lastOp = "execute"
    /\ result = None
    /\ Len(output) = 1
    /\ output[1].v = "A"
    /\ classIndex["A"] = NumAttributes("A") - 1
    /\ classIndex["B"] = NoClass

\* C27: DeleteFile, given a path and a regexp that compiles, deletes the file
\* of that path exactly when the regexp is the default ".*" or matches the
\* path, and forwards the input token as its one output token whether or not
\* the file was deleted.  (Fails: on a path that matches but names no file,
\* os.remove raises and the token is not forwarded.)
C27_DeleteFileForwards ==
    [][(/\ kind = "DeleteFile"
        /\ ExecuteStep
        /\ input.t = "str"
        /\ (resolve_option("regexp") = MatchAll \/ ReValid(resolve_option("regexp"))))
        => (/\ output' = Append(output, input)
            /\ result' = None
            /\ (input.v \in removed' \ removed) <=>
                  (/\ CanRemove(input.v, removed)
                   /\ \/ resolve_option("regexp") = MatchAll
                      \/ ReMatch(resolve_option("regexp"), 1, PathText(input.v), 1)))]_vars

\* C28: for every transformer, the options after fix_options hold each value
\* the caller supplied and the default for each option the caller left out;
\* applying fix_options once more changes neither the options nor the help
\* texts; and every option do_execute resolves has a value and a help text.
C28_FixOptions ==
    LET st == [options |-> opts, help |-> help]
    IN  /\ \A n \in DOMAIN supplied : opts[n] = supplied[n]
        /\ \A n \in DOMAIN Defaults(kind) \ DOMAIN supplied :
              opts[n] = Defaults(kind)[n]
        /\ DOMAIN opts = DOMAIN supplied \cup DOMAIN Defaults(kind)
        /\ fix_options(kind, st) = st
        /\ Resolved(kind) \subseteq (DOMAIN opts \cap DOMAIN help)

C28_Witness ==
    /\ kind = "CrossValidate"
    /\ DOMAIN supplied = {"folds", "seed"}
    /\ opts.folds = 2
    /\ opts.seed = 7
    /\ opts.setup = Obj("Classifier", "")
    /\ opts.output = None
    /\ ~opts.discard_predictions
    /\ execs > 0
    /\ lastOp = "execute"

\* main() has returned or raised; it ended before the option loop was through
MainDone == pc \in {"returned", "raised"}
MainRejected ==
    \/ pc = "raised"
    \/ printed = "usage"

C37_NoneTokenIsNamed ==
    [][(kind \in {"LoadDataset", "Train", "Filter"} /\ SetInput(NoneTok))
        => (result' = Raised("No token provided!"))]_vars

\* C31: a SingleClassifierEnhancer, FilteredClassifier or
\* MultipleClassifiersCombiner constructed with a JB_Object wraps that very
\* object.  (Fails: each constructor replaces it by a new instance of its
\* class.)
C31_WrapsSuppliedObject ==
    (wrapper # NoWrapper /\ wrapper.given # 0)
        => (wrapper.jobject = wrapper.given)

\* the error messages the do_execute methods return
ErrorStrings ==
    {"File does not exist!", "Location is not a file!",
     "No storage handler available!", "Unhandled class", "Expected 1 or 2 objects"}

\* C32: an execution whose do_execute returns an error message has appended
\* no token to the output queue and written no storage entry.
C32_ErrorReturnLeavesNoOutput ==
    [][(ExecuteStep /\ result' \in ErrorStrings)
        => (output' = output /\ storage' = storage)]_vars

C32_Witness ==
    /\ kind = "LoadDataset"
    /\ lastOp = "execute"
    /\ execs = 2
    /\ result = "File does not exist!"
    /\ Len(output) = 1
    /\ output[1] = DatasetTok("a.arff")
    /\ input = Tok("str", "missing", 0)

\* C33: an execution whose do_execute returns None has appended exactly one
\* token to the output queue, except for LoadDataset in incremental mode,
\* which appends none and opens the iterator on the file instead.
C33_SuccessAppendsOne ==
    [][(ExecuteStep /\ result' = None)
        => IF kind = "LoadDataset" /\ resolve_option("incremental")
           THEN (output' = output /\ iterator' = IterStart(input.v))
           ELSE (/\ Len(output') = Len(output) + 1
                 /\ SubSeq(output', 1, Len(output)) = output
                 /\ (kind = "LoadDataset" => UNCHANGED iterator))]_vars

C33_Witness ==
    /\ kind = "LoadDataset"
    /\ opts.incremental
    /\ lastOp = "execute"
    /\ result = None
    /\ execs = 1
    /\ output = <<>>
    /\ iterator = IterStart("b.arff")

\* C34: the Filter actor caches a filter exactly when it caches a header, and
\* a cached filter that is applied to a dataset without a refit has been
\* fitted on a dataset of that schema, also on the step after a refit that
\* raised part-way.  (Fails: header and copy are cached before inputformat
\* has completed.)
C34_FilterCacheConsistent ==
    /\ [](kind = "Filter" => ((fcache.filter = 0) <=> (fcache.header = "")))
    /\ [][(/\ kind = "Filter"
           /\ ExecuteStep
           /\ input # NoneTok
           /\ fcache.filter # 0
           /\ ~HeadersDiffer(fcache.header, input.v))
           => (heap[fcache.filter].built = input.v)]_vars

\* C35: for LoadDataset, whenever has_output() is true the next output()
\* returns a token, never None.  (Fails: an open iterator that is exhausted,
\* or opened over an empty source, makes has_output() true and output() None.)
C35_HasOutputMeansToken ==
    [][(/\ kind = "LoadDataset"
        /\ lastOp' = "output" /\ Output
        /\ LoadDataset_has_output(output, iterator))
        => (lastOut' # NoneTok)]_vars

\* what repeated calls of output() will still deliver: the rows the open
\* iterator has left, then the queued tokens
Pending(out, it) ==
    (IF it.set THEN SubSeq(AllRows(it.file), it.pos + 1, NumRows(it.file)) ELSE <<>>)
        \o out

RECURSIVE IsSubsequence(_, _)
IsSubsequence(s, t) ==
    IF s = <<>> THEN TRUE
    ELSE IF t = <<>> THEN FALSE
    ELSE IF Head(s) = Head(t) THEN IsSubsequence(Tail(s), Tail(t))
    ELSE IsSubsequence(s, Tail(t))

\* C36: a do_execute of LoadDataset that runs before the previous load is
\* drained loses nothing: the rows the iterator had left and the queued tokens
\* are still delivered, in order, with the output of the new source added.
\* (Fails: the open iterator is replaced and its remaining rows are gone.)
C36_SecondLoadLosesNothing ==
    [][(kind = "LoadDataset" /\ ExecuteStep /\ result' = None)
        => (/\ IsSubsequence(Pending(output, iterator), Pending(output', iterator'))
            /\ Len(Pending(output', iterator')) =
                   Len(Pending(output, iterator))
                     + (IF resolve_option("incremental") THEN NumRows(input.v) ELSE 1))]_vars

====
